---- MODULE Spec2Model ----
(***************************************************************************)
(* TailorTalk dialogue engine (agent.py): the session store, one turn of   *)
(* process_message, and the LangGraph nodes and routers a turn runs.       *)
(*                                                                         *)
(* Python objects that the code mutates in place (the messages list, the   *)
(* context dict, the extracted_info dict) live in a heap and the state     *)
(* dicts hold references to them; dict.copy() copies the references.       *)
(* The graph hands every node the same objects (channels keep the last     *)
(* value written, no copy), so in-place edits made by nodes and routers    *)
(* are visible to the following nodes, as the code's routers rely on.      *)
(*                                                                         *)
(* Times are minutes since midnight of day 0 in the local timezone.        *)
(***************************************************************************)
EXTENDS Integers, Sequences, FiniteSets, TLC

\* ---------------------------------------------------------------- bounds
MaxHistory == 3
MaxFaults == 1
MaxBusy == 2
MaxOverlapHistory == 2

\* ------------------------------------------------------------- constants
SlotMinutes == 30
DayStartHour == 9
DayEndHour == 17
SearchWindowHours == 2
MinutesPerDay == 24 * 60

Sessions == {"A", "B"}

\* Session ids are interchangeable: the first turn of a run comes from this one.
FirstSession == "A"

\* ------------------------------------------------------------ timestamps
\* datetime.isoformat(): the text carries date, hour and minute fields.
IsoFormat(t) == <<t \div MinutesPerDay, (t % MinutesPerDay) \div 60, t % 60>>

\* dateutil parser.parse() of an ISO text written by isoformat().
ParseIso(s) == s[1] * MinutesPerDay + s[2] * 60 + s[3]

\* datetime.replace(hour=h, minute=0, second=0, microsecond=0)
ReplaceHour(t, h) == (t \div MinutesPerDay) * MinutesPerDay + h * 60

HourOf(t) == (t % MinutesPerDay) \div 60
MinuteOf(t) == t % 60

\* ------------------------------------------------------------ utterances
\* The user texts a turn may carry, with what parser.parse(text, fuzzy=True)
\* makes of each: no time at all, a date without time, a date with a time.
Utterances == {"hello", "on friday", "at 3pm"}

NoTime == 0 - 1

FuzzyParse(text) ==
    CASE text = "on friday" -> MinutesPerDay
      [] text = "at 3pm" -> 15 * 60
      [] OTHER -> NoTime

\* -------------------------------------------------------------- messages
HumanMessage(text) == [role |-> "user", text |-> text]
AIMessage(text) == [role |-> "agent", text |-> text]

\* ------------------------------------------------------- calendar data
\* A calendar event as the Calendar API returns it. An all-day event has
\* start.date and end.date and no dateTime.
Event(id, hasDateTime, start, end) ==
    [id |-> id, hasDateTime |-> hasDateTime, start |-> IsoFormat(start), end |-> IsoFormat(end)]

E1 == Event("e1", TRUE, 15 * 60, 16 * 60)
E2 == Event("e2", TRUE, 16 * 60, 17 * 60)
E3 == Event("e3", FALSE, 0, 0)

SearchResults == { <<>>, <<E1>>, <<E1, E2>>, <<E3>>, <<E1, E3>> }

Interval(start, end) == [start |-> IsoFormat(start), end |-> IsoFormat(end)]

\* Busy lists a free/busy query for [start, end) may report: nothing, the
\* whole window, or its first half hour when the window is longer than that.
BusyChoices(start, end) ==
    { <<>>, <<Interval(start, end)>> }
      \cup (IF end - start > SlotMinutes THEN { <<Interval(start, start + SlotMinutes)>> } ELSE {})

\* -------------------------------------------------------- port responses
\* What a call on a port comes back with: an exception (raised), or a
\* mapping with the keys present in it. The lookup of the attribute
\* self.calendar_service is part of every Calendar Port call; __init__ does
\* not assign it, so unless the host has set it the call raises.
NoResponse == [raised |-> FALSE, keys |-> {}, id |-> "", items |-> <<>>, busy |-> <<>>, content |-> ""]
Raises == [NoResponse EXCEPT !.raised = TRUE]
ErrorResult == [NoResponse EXCEPT !.keys = {"error"}]

\* CalendarService.get_availability
FreeBusyOutcomes(start, end) ==
    { Raises, ErrorResult }
      \cup { [NoResponse EXCEPT !.keys = {"calendars"}, !.busy = b] : b \in BusyChoices(start, end) }

\* CalendarService.create_event
CreateOutcomes ==
    { Raises, ErrorResult, NoResponse, [NoResponse EXCEPT !.keys = {"id"}, !.id = "new1"] }

\* CalendarService.search_events
SearchOutcomes ==
    { Raises, ErrorResult }
      \cup { [NoResponse EXCEPT !.keys = {"items"}, !.items = it] : it \in SearchResults }

\* CalendarService.delete_event
DeleteOutcomes(id) ==
    { Raises, ErrorResult, [NoResponse EXCEPT !.keys = {"success", "event_id"}, !.id = id] }

\* CalendarService.update_event
UpdateOutcomes(id) ==
    { Raises, ErrorResult, [NoResponse EXCEPT !.keys = {"id"}, !.id = id] }

\* ChatOpenAI.ainvoke: the reply text is a JSON object with an intent, a
\* JSON object without one, JSON that is not an object ([...], "text", null),
\* or no JSON at all.
Intents == {"find_event", "book_appointment", "check_availability",
            "cancel_appointment", "reschedule_appointment", "general_inquiry"}

LLMContents ==
    { "{intent:" \o i \o "}" : i \in Intents \cup {"smalltalk"} }
      \cup { "{}", "[]", "not json" }

LLMOutcomes ==
    { Raises } \cup { [NoResponse EXCEPT !.keys = {"content"}, !.content = c] : c \in LLMContents }

\* json.loads(content): what kind of value the text decodes to
JsonLoads(content) ==
    CASE content = "not json" -> [ok |-> FALSE, isObject |-> FALSE, hasIntent |-> FALSE, intent |-> ""]
      [] content = "[]" -> [ok |-> TRUE, isObject |-> FALSE, hasIntent |-> FALSE, intent |-> ""]
      [] content = "{}" -> [ok |-> TRUE, isObject |-> TRUE, hasIntent |-> FALSE, intent |-> ""]
      [] OTHER -> [ok |-> TRUE, isObject |-> TRUE, hasIntent |-> TRUE,
                   intent |-> CHOOSE i \in Intents \cup {"smalltalk"} : content = "{intent:" \o i \o "}"]

\* --------------------------------------------------------- context dicts
\* A dict is a set of present keys plus a value for every key the code uses;
\* the value of an absent key is a filler that is never read.
CtxKeys == {"availability", "availability_error", "is_slot_available",
            "user_informed_slot_is_busy", "booking_details"}

EmptyContext ==
    [keys |-> {}, availability |-> <<>>, availability_error |-> "",
     is_slot_available |-> FALSE, user_informed_slot_is_busy |-> FALSE,
     booking_details |-> NoResponse]

\* dict.update(other)
DictUpdate(d, other) ==
    [keys |-> d.keys \cup other.keys,
     availability |-> IF "availability" \in other.keys THEN other.availability ELSE d.availability,
     availability_error |-> IF "availability_error" \in other.keys THEN other.availability_error ELSE d.availability_error,
     is_slot_available |-> IF "is_slot_available" \in other.keys THEN other.is_slot_available ELSE d.is_slot_available,
     user_informed_slot_is_busy |-> IF "user_informed_slot_is_busy" \in other.keys THEN other.user_informed_slot_is_busy ELSE d.user_informed_slot_is_busy,
     booking_details |-> IF "booking_details" \in other.keys THEN other.booking_details ELSE d.booking_details]

\* d[key] = value
CtxSet(d, key, value) ==
    [[d EXCEPT ![key] = value] EXCEPT !.keys = @ \cup {key}]

\* d.get(key) for the boolean keys: None (falsy) when absent
CtxTruthy(d, key) == key \in d.keys /\ d[key]

\* The context argument of process_message: the chat endpoint passes the
\* request's mapping; the client sends {} or a mapping it built.
CallerContexts ==
    { EmptyContext,
      [EmptyContext EXCEPT !.keys = {"is_slot_available"}, !.is_slot_available = TRUE] }

\* extracted_info dict: key parsed_datetime present or absent
EmptyExtracted == [keys |-> {}, parsed_datetime |-> IsoFormat(0)]

\* ------------------------------------------------------ slot computation
\* sorted(list of (start, end) tuples): insertion sort on (start, end)
TupleLeq(a, b) == a[1] < b[1] \/ (a[1] = b[1] /\ a[2] <= b[2])

RECURSIVE InsertSorted(_, _)
InsertSorted(x, sq) ==
    IF sq = <<>> THEN <<x>>
    ELSE IF TupleLeq(x, Head(sq)) THEN <<x>> \o sq
    ELSE <<Head(sq)>> \o InsertSorted(x, Tail(sq))

SortedKeepsOrder(sq) == sq

RECURSIVE Sorted(_)
Sorted(sq) == IF sq = <<>> THEN <<>> ELSE InsertSorted(Head(sq), Sorted(Tail(sq)))

MaxKeepsFirst(a, b) == a

Max(a, b) == IF a >= b THEN a ELSE b

RECURSIVE FreeGapsNoTail(_, _, _)
FreeGapsNoTail(current_time, busy_intervals, day_end) ==
    IF busy_intervals = <<>>
    THEN <<>>
    ELSE LET busy_start == Head(busy_intervals)[1]
             busy_end == Head(busy_intervals)[2]
             rest == FreeGapsNoTail(Max(current_time, busy_end), Tail(busy_intervals), day_end)
         IN IF current_time < busy_start
            THEN << <<current_time, busy_start>> >> \o rest
            ELSE rest

\* the cursor scan over the sorted busy intervals: the free gaps
RECURSIVE FreeGaps(_, _, _)
FreeGaps(current_time, busy_intervals, day_end) ==
    IF busy_intervals = <<>>
    THEN IF current_time < day_end THEN << <<current_time, day_end>> >> ELSE <<>>
    ELSE LET busy_start == Head(busy_intervals)[1]
             busy_end == Head(busy_intervals)[2]
             rest == FreeGaps(Max(current_time, busy_end), Tail(busy_intervals), day_end)
         IN IF current_time < busy_start
            THEN << <<current_time, busy_start>> >> \o rest
            ELSE rest

RECURSIVE SliceGapStrict(_, _)
SliceGapStrict(slot_start, slot_end) ==
    IF slot_start + SlotMinutes < slot_end
    THEN << Interval(slot_start, slot_start + SlotMinutes) >> \o SliceGapStrict(slot_start + SlotMinutes, slot_end)
    ELSE <<>>

\* the while loop slicing one gap into 30-minute slots
RECURSIVE SliceGap(_, _)
SliceGap(slot_start, slot_end) ==
    IF slot_start + SlotMinutes <= slot_end
    THEN << Interval(slot_start, slot_start + SlotMinutes) >> \o SliceGap(slot_start + SlotMinutes, slot_end)
    ELSE <<>>

RECURSIVE SliceAll(_)
SliceAll(gaps) ==
    IF gaps = <<>> THEN <<>>
    ELSE SliceGap(Head(gaps)[1], Head(gaps)[2]) \o SliceAll(Tail(gaps))

\* appointment_slots of _suggest_times for a target time and a busy list
AppointmentSlots(target_date, busy_times) ==
    LET day_start == ReplaceHour(target_date, DayStartHour)
        day_end == ReplaceHour(target_date, DayEndHour)
        busy_intervals == Sorted([i \in 1..Len(busy_times) |->
                                    <<ParseIso(busy_times[i].start), ParseIso(busy_times[i].end)>>])
    IN SliceAll(FreeGaps(day_start, busy_intervals, day_end))

\* ------------------------------------------------------ the agent state
\* self.initial_state: the dict built once in __init__. messages, context
\* and extracted_info are references to the objects created there.
InitialRef == 0

initial_state ==
    [session_id |-> "", messages |-> InitialRef, context |-> InitialRef, intent |-> "",
     extracted_info |-> InitialRef, availability_checked |-> FALSE,
     booking_confirmed |-> FALSE, conversation_stage |-> "start",
     cancellation_candidates |-> <<>>, event_to_reschedule |-> <<>>]

\* dict.copy(): a new dict with the same values, references included
ShallowCopy(d) == d

Nodes == {"initial_router", "understand_intent", "extract_datetime", "check_specific_slot",
          "check_availability", "suggest_times", "confirm_booking", "clarify_details",
          "find_event_for_action", "handle_cancellation", "clarify_cancellation",
          "handle_reschedule_request", "complete_reschedule", "list_found_events",
          "handle_general_inquiry"}

\* seen: the length of the session's message list when process_message was called
NoInput == [message |-> "", context |-> EmptyContext, first |-> FALSE, seen |-> 0]
NoResult == [status |-> "none", message |-> "", context |-> EmptyContext, intent |-> ""]

VARIABLES
    sessions,       \* self.sessions: session id -> state dict
    objMessages,    \* heap: reference -> list of messages
    objContext,     \* heap: reference -> context dict
    objExtracted,   \* heap: reference -> extracted_info dict
    pc,             \* per session: "idle", the node about to run, "END" or "RAISED"
    gstate,         \* per session: the state dict travelling through the graph
    input,          \* per session: the arguments of the running process_message
    path,           \* per session: the nodes the running turn has executed
    calls,          \* per session: the port calls the running turn has made
    result,         \* per session: what the last process_message returned
    faults          \* number of failed or malformed port responses so far

vars == <<sessions, objMessages, objContext, objExtracted, pc, gstate, input, path, calls, result, faults>>

Init ==
    /\ sessions = [x \in {} |-> initial_state]
    /\ objMessages = [r \in {InitialRef} |-> <<>>]
    /\ objContext = [r \in {InitialRef} |-> EmptyContext]
    /\ objExtracted = [r \in {InitialRef} |-> EmptyExtracted]
    /\ pc = [s \in Sessions |-> "idle"]
    /\ gstate = [s \in Sessions |-> initial_state]
    /\ input = [s \in Sessions |-> NoInput]
    /\ path = [s \in Sessions |-> <<>>]
    /\ calls = [s \in Sessions |-> <<>>]
    /\ result = [s \in Sessions |-> NoResult]
    /\ faults = 0

\* state views of the running turn
Msgs(s) == objMessages[gstate[s].messages]
Ctx(s) == objContext[gstate[s].context]
Ext(s) == objExtracted[gstate[s].extracted_info]

Call(op, a1, a2, id, res) == [op |-> op, a1 |-> a1, a2 |-> a2, id |-> id, res |-> res]

\* A response that is a failure or malformed: an exception, an error
\* result, an empty mapping, or classifier text that is no intent object.
Faulty(r) == r.raised \/ "error" \in r.keys \/ r.keys = {} \/ r.content \in {"{}", "[]", "not json"}

\* the responses the fault budget still allows after `used` more faults
Within(outcomes, used) == { r \in outcomes : Faulty(r) => faults + used < MaxFaults }

MadeRetriesFailed(s, new_calls) ==
    /\ calls' = [calls EXCEPT ![s] = @ \o new_calls \o SelectSeq(new_calls, LAMBDA c : Faulty(c.res))]
    /\ faults' = faults + Cardinality({ i \in 1..Len(new_calls) : Faulty(new_calls[i].res) })

\* the running turn made these port calls
Made(s, new_calls) ==
    /\ calls' = [calls EXCEPT ![s] = @ \o new_calls]
    /\ faults' = faults + Cardinality({ i \in 1..Len(new_calls) : Faulty(new_calls[i].res) })

\* ----------------------------------------------------- process_message
\* Lines 388-399: look the session up or create it, append the user
\* message, merge the caller's context, and start the graph.
StartTurn(s, message, context) ==
    /\ \A r \in DOMAIN objMessages : Len(objMessages[r]) < MaxHistory
    /\ pc[s] = "idle"
    /\ sessions = <<>> => s = FirstSession
    /\ LET created == IF s \in DOMAIN sessions
                      THEN sessions
                      ELSE [x \in DOMAIN sessions \cup {s} |->
                              IF x = s THEN [ShallowCopy(initial_state) EXCEPT !.session_id = s]
                              ELSE sessions[x]]
           state == created[s]
       IN /\ sessions' = created
          /\ objMessages' = [objMessages EXCEPT ![state.messages] = Append(@, HumanMessage(message))]
          /\ objContext' = IF context.keys # {}
                           THEN [objContext EXCEPT ![state.context] = DictUpdate(@, context)]
                           ELSE objContext
          /\ gstate' = [gstate EXCEPT ![s] = state]
          /\ input' = [input EXCEPT ![s] = [message |-> message, context |-> context,
                                            first |-> s \notin DOMAIN sessions,
                                            seen |-> Len(objMessages[state.messages])]]
    /\ pc' = [pc EXCEPT ![s] = "initial_router"]
    /\ path' = [path EXCEPT ![s] = <<>>]
    /\ calls' = [calls EXCEPT ![s] = <<>>]
    /\ UNCHANGED <<objExtracted, result, faults>>

\* process_message called while no other call of it is in progress
BeginTurn(s, message, context) ==
    /\ \A t \in Sessions : pc[t] = "idle"
    /\ StartTurn(s, message, context)

\* the frame of process_message is gone once it has returned or raised
Forget(s) ==
    /\ gstate' = [gstate EXCEPT ![s] = initial_state]
    /\ input' = [input EXCEPT ![s] = NoInput]
    /\ path' = [path EXCEPT ![s] = <<>>]
    /\ calls' = [calls EXCEPT ![s] = <<>>]

ReturnFirstMessage(s) ==
    /\ pc[s] = "END"
    /\ sessions' = [sessions EXCEPT ![s] = gstate[s]]
    /\ result' = [result EXCEPT ![s] =
                    [status |-> "ok",
                     message |-> IF Msgs(s) # <<>> THEN Msgs(s)[1].text ELSE "How can I help you?",
                     context |-> Ctx(s),
                     intent |-> gstate[s].intent]]
    /\ pc' = [pc EXCEPT ![s] = "idle"]
    /\ Forget(s)
    /\ UNCHANGED <<objMessages, objContext, objExtracted, faults>>

\* Lines 401-406: the graph finished; store the result state and answer.
Return(s) ==
    /\ pc[s] = "END"
    /\ sessions' = [sessions EXCEPT ![s] = gstate[s]]
    /\ result' = [result EXCEPT ![s] =
                    [status |-> "ok",
                     message |-> IF Msgs(s) # <<>> THEN Msgs(s)[Len(Msgs(s))].text ELSE "How can I help you?",
                     context |-> Ctx(s),
                     intent |-> gstate[s].intent]]
    /\ pc' = [pc EXCEPT ![s] = "idle"]
    /\ Forget(s)
    /\ UNCHANGED <<objMessages, objContext, objExtracted, faults>>

\* graph.ainvoke raised: process_message has no handler, the exception
\* reaches the caller and line 401 is not executed.
Propagate(s) ==
    /\ pc[s] = "RAISED"
    /\ result' = [result EXCEPT ![s] = [NoResult EXCEPT !.status = "raised"]]
    /\ pc' = [pc EXCEPT ![s] = "idle"]
    /\ Forget(s)
    /\ UNCHANGED <<sessions, objMessages, objContext, objExtracted, faults>>

\* ---------------------------------------------------------------- routers
EntryRouteIgnoresPending(state) == "understand_intent"

\* the lambda of the initial_router edge
EntryRoute(state) ==
    IF state.event_to_reschedule # <<>> THEN "complete_reschedule" ELSE "understand_intent"

RouteByIntentUnknownIsInquiry(intent) ==
    CASE intent = "find_event" -> "find_event_for_action"
      [] intent = "book_appointment" -> "extract_datetime"
      [] intent = "check_availability" -> "extract_datetime"
      [] intent = "cancel_appointment" -> "find_event_for_action"
      [] intent = "reschedule_appointment" -> "find_event_for_action"
      [] OTHER -> "handle_general_inquiry"

\* _route_by_intent and the edge map of understand_intent
RouteByIntent(intent) ==
    CASE intent = "find_event" -> "find_event_for_action"
      [] intent = "book_appointment" -> "extract_datetime"
      [] intent = "check_availability" -> "extract_datetime"
      [] intent = "cancel_appointment" -> "find_event_for_action"
      [] intent = "reschedule_appointment" -> "find_event_for_action"
      [] intent = "general_inquiry" -> "handle_general_inquiry"
      [] OTHER -> "clarify_details"

RouteAfterDatetimeExtractionByIntentOnly(intent, extracted) ==
    IF intent = "book_appointment" THEN "check_specific_slot"
    ELSE IF intent = "check_availability" THEN "check_availability"
    ELSE "clarify_details"

\* _route_after_datetime_extraction and the edge map of extract_datetime
RouteAfterDatetimeExtraction(intent, extracted) ==
    IF "parsed_datetime" \notin extracted.keys THEN "clarify_details"
    ELSE IF intent = "book_appointment" THEN "check_specific_slot"
    ELSE IF intent = "check_availability" THEN "check_availability"
    ELSE "clarify_details"

RouteAfterSpecificSlotCheckAlwaysConfirm(context) == "confirm_booking"

\* _route_after_specific_slot_check and the edge map of check_specific_slot
RouteAfterSpecificSlotCheck(context) ==
    IF CtxTruthy(context, "is_slot_available") THEN "confirm_booking" ELSE "check_availability"

RouteAfterEventSearchKeyFirstOfMany(intent, num_candidates) ==
    IF intent = "find_event" THEN "list_events"
    ELSE IF num_candidates = 0 THEN "not_found"
    ELSE IF intent = "cancel_appointment" THEN "cancel"
    ELSE IF intent = "reschedule_appointment" THEN "reschedule"
    ELSE "not_found"

\* _route_after_event_search: the key it returns
RouteAfterEventSearchKey(intent, num_candidates) ==
    IF intent = "find_event" THEN "list_events"
    ELSE IF num_candidates = 0 THEN "not_found"
    ELSE IF num_candidates > 1 THEN "clarify_cancel"
    ELSE IF intent = "cancel_appointment" THEN "cancel"
    ELSE IF intent = "reschedule_appointment" THEN "reschedule"
    ELSE "not_found"

EventSearchEdgeNotFoundClarifies(key) ==
    CASE key = "list_events" -> "list_found_events"
      [] key = "cancel" -> "handle_cancellation"
      [] key = "reschedule" -> "handle_reschedule_request"
      [] key = "clarify_cancel" -> "clarify_cancellation"
      [] key = "not_found" -> "clarify_cancellation"

\* the edge map of find_event_for_action
EventSearchEdge(key) ==
    CASE key = "list_events" -> "list_found_events"
      [] key = "cancel" -> "handle_cancellation"
      [] key = "reschedule" -> "handle_reschedule_request"
      [] key = "clarify_cancel" -> "clarify_cancellation"
      [] key = "not_found" -> "list_found_events"

\* ------------------------------------------------------------------ nodes
ExtractDatetimeToggles(messages, extracted) ==
    LET human == SelectSeq(messages, LAMBDA m : m.role = "user")
        latest == IF human # <<>> THEN human[Len(human)].text ELSE ""
        parsed == IF latest # "" THEN FuzzyParse(latest) ELSE NoTime
    IN IF parsed # NoTime /\ "parsed_datetime" \notin extracted.keys
       THEN [keys |-> extracted.keys \cup {"parsed_datetime"}, parsed_datetime |-> IsoFormat(parsed)]
       ELSE [extracted EXCEPT !.keys = @ \ {"parsed_datetime"}]

ExtractDatetimeKeepsStale(messages, extracted) ==
    LET human == SelectSeq(messages, LAMBDA m : m.role = "user")
        latest == IF human # <<>> THEN human[Len(human)].text ELSE ""
        parsed == IF latest # "" THEN FuzzyParse(latest) ELSE NoTime
    IN IF parsed # NoTime
       THEN [keys |-> extracted.keys \cup {"parsed_datetime"}, parsed_datetime |-> IsoFormat(parsed)]
       ELSE extracted

\* _extract_datetime on the message list and the extracted_info dict
ExtractDatetime(messages, extracted) ==
    LET human == SelectSeq(messages, LAMBDA m : m.role = "user")
        latest == IF human # <<>> THEN human[Len(human)].text ELSE ""
        parsed == IF latest # "" THEN FuzzyParse(latest) ELSE NoTime
    IN IF parsed # NoTime
       THEN [keys |-> extracted.keys \cup {"parsed_datetime"}, parsed_datetime |-> IsoFormat(parsed)]
       ELSE [extracted EXCEPT !.keys = @ \ {"parsed_datetime"}]

Step(s, node, next) ==
    /\ pc[s] = node
    /\ pc' = [pc EXCEPT ![s] = next]
    /\ path' = [path EXCEPT ![s] = Append(@, node)]

SayInFront(s, text) ==
    objMessages' = [objMessages EXCEPT ![gstate[s].messages] = <<AIMessage(text)>> \o @]

\* state['messages'].append(AIMessage(content=text))
Say(s, text) ==
    objMessages' = [objMessages EXCEPT ![gstate[s].messages] = Append(@, AIMessage(text))]

initial_router(s) ==
    /\ Step(s, "initial_router", EntryRoute(gstate[s]))
    /\ UNCHANGED <<sessions, objMessages, objContext, objExtracted, gstate, input, calls, result, faults>>

understand_intent(s) ==
    /\ pc[s] = "understand_intent"
    /\ \E response \in Within(LLMOutcomes, 0) :
         LET result_ == JsonLoads(response.content)
             escapes == response.raised \/ (result_.ok /\ ~result_.isObject)
             intent == IF result_.ok /\ result_.hasIntent THEN result_.intent ELSE "general_inquiry"
             latest_message == Msgs(s)[Len(Msgs(s))].text
         IN /\ Made(s, <<Call("llm", latest_message, <<>>, "", response)>>)
            /\ IF escapes
               THEN /\ Step(s, "understand_intent", "RAISED")
                    /\ UNCHANGED gstate
               ELSE /\ Step(s, "understand_intent", RouteByIntent(intent))
                    /\ gstate' = [gstate EXCEPT ![s].intent = intent]
    /\ UNCHANGED <<sessions, objMessages, objContext, objExtracted, input, result>>

extract_datetime(s) ==
    LET extracted == ExtractDatetime(Msgs(s), Ext(s))
    IN /\ Step(s, "extract_datetime", RouteAfterDatetimeExtraction(gstate[s].intent, extracted))
       /\ objExtracted' = [objExtracted EXCEPT ![gstate[s].extracted_info] = extracted]
       /\ UNCHANGED <<sessions, objMessages, objContext, gstate, input, calls, result, faults>>

\* _check_specific_slot, then _route_after_specific_slot_check, which
\* writes user_informed_slot_is_busy into the context dict when it routes
\* to the alternatives.
check_specific_slot(s) ==
    /\ pc[s] = "check_specific_slot"
    /\ LET has_time == "parsed_datetime" \in Ext(s).keys
           start_time == ParseIso(Ext(s).parsed_datetime)
           end_time == start_time + SlotMinutes
       IN \E response \in (IF has_time THEN Within(FreeBusyOutcomes(start_time, end_time), 0) ELSE {Raises}) :
            LET failed == response.raised \/ "error" \in response.keys
                available == ~failed /\ response.busy = <<>>
                checked == CtxSet(Ctx(s), "is_slot_available", available)
                next == RouteAfterSpecificSlotCheck(checked)
                routed == IF next = "confirm_booking" THEN checked
                          ELSE CtxSet(checked, "user_informed_slot_is_busy", TRUE)
            IN /\ Made(s, IF has_time
                           THEN <<Call("get_availability", IsoFormat(start_time), IsoFormat(end_time), "", response)>>
                           ELSE <<>>)
               /\ objContext' = [objContext EXCEPT ![gstate[s].context] = routed]
               /\ Step(s, "check_specific_slot", next)
    /\ UNCHANGED <<sessions, objMessages, objExtracted, gstate, input, result>>

check_availability_fails_open(s) ==
    /\ pc[s] = "check_availability"
    /\ LET target_date == IF "parsed_datetime" \in Ext(s).keys THEN ParseIso(Ext(s).parsed_datetime) ELSE 0
           start_of_day == ReplaceHour(target_date, DayStartHour)
           end_of_day == ReplaceHour(target_date, DayEndHour)
       IN \E response \in Within(FreeBusyOutcomes(start_of_day, end_of_day), 0) :
            /\ Made(s, <<Call("get_availability", IsoFormat(start_of_day), IsoFormat(end_of_day), "", response)>>)
            /\ objContext' = [objContext EXCEPT ![gstate[s].context] =
                                 CtxSet(@, "availability", response.busy)]
            /\ gstate' = [gstate EXCEPT ![s].availability_checked = TRUE]
    /\ Step(s, "check_availability", "suggest_times")
    /\ UNCHANGED <<sessions, objMessages, objExtracted, input, result>>

\* _check_availability (the definition at lines 510-539, which replaces
\* the one at 460-487); its only edge leads to suggest_times.
check_availability(s) ==
    /\ pc[s] = "check_availability"
    /\ LET target_date == IF "parsed_datetime" \in Ext(s).keys THEN ParseIso(Ext(s).parsed_datetime) ELSE 0
           start_of_day == ReplaceHour(target_date, DayStartHour)
           end_of_day == ReplaceHour(target_date, DayEndHour)
       IN \E response \in Within(FreeBusyOutcomes(start_of_day, end_of_day), 0) :
            /\ Made(s, <<Call("get_availability", IsoFormat(start_of_day), IsoFormat(end_of_day), "", response)>>)
            /\ IF response.raised \/ "error" \in response.keys
               THEN /\ objContext' = [objContext EXCEPT ![gstate[s].context] =
                                        CtxSet(@, "availability_error", "error")]
                    /\ UNCHANGED gstate
               ELSE /\ objContext' = [objContext EXCEPT ![gstate[s].context] =
                                        CtxSet(@, "availability", response.busy)]
                    /\ gstate' = [gstate EXCEPT ![s].availability_checked = TRUE]
    /\ Step(s, "check_availability", "suggest_times")
    /\ UNCHANGED <<sessions, objMessages, objExtracted, input, result>>

\* _suggest_times. An exception inside its try block is swallowed and
\* leaves response_message unbound, so line 587 raises.
suggest_times(s) ==
    /\ pc[s] = "suggest_times"
    /\ IF "parsed_datetime" \notin Ext(s).keys
       THEN /\ Step(s, "suggest_times", "RAISED")
            /\ UNCHANGED <<objMessages, objContext>>
       ELSE LET base_message == IF CtxTruthy(Ctx(s), "user_informed_slot_is_busy")
                                THEN "that time is booked, other slots"
                                ELSE "found available slots"
                busy_times == IF "availability" \in Ctx(s).keys THEN Ctx(s).availability ELSE <<>>
                appointment_slots == AppointmentSlots(ParseIso(Ext(s).parsed_datetime), busy_times)
            IN /\ objContext' = [objContext EXCEPT ![gstate[s].context] =
                                    CtxSet(@, "availability", appointment_slots)]
               /\ Say(s, IF appointment_slots # <<>> THEN base_message ELSE "no other available slots")
               /\ Step(s, "suggest_times", "END")
    /\ UNCHANGED <<sessions, objExtracted, gstate, input, calls, result, faults>>

clarify_details(s) ==
    /\ Step(s, "clarify_details", "END")
    /\ Say(s, "when to schedule")
    /\ UNCHANGED <<sessions, objContext, objExtracted, gstate, input, calls, result, faults>>

handle_general_inquiry(s) ==
    /\ Step(s, "handle_general_inquiry", "END")
    /\ Say(s, "how can I assist")
    /\ UNCHANGED <<sessions, objContext, objExtracted, gstate, input, calls, result, faults>>

\* line 610: booking_response and 'id' in booking_response
BookingSucceededNoIdCheck(booking_response) == booking_response.keys # {}

BookingSucceeded(booking_response) == "id" \in booking_response.keys

\* _confirm_booking
confirm_booking(s) ==
    /\ pc[s] = "confirm_booking"
    /\ IF "parsed_datetime" \notin Ext(s).keys
       THEN /\ Say(s, "lost the booking time")
            /\ Made(s, <<>>)
            /\ UNCHANGED <<objContext, gstate>>
       ELSE LET start_time == ParseIso(Ext(s).parsed_datetime)
                end_time == start_time + SlotMinutes
            IN \E booking_response \in Within(CreateOutcomes, 0) :
                 /\ Made(s, <<Call("create_event", IsoFormat(start_time), IsoFormat(end_time), "", booking_response)>>)
                 /\ IF booking_response.raised
                    THEN /\ Say(s, "unexpected error while booking")
                         /\ UNCHANGED <<objContext, gstate>>
                    ELSE IF BookingSucceeded(booking_response)
                    THEN /\ Say(s, "successfully booked")
                         /\ gstate' = [gstate EXCEPT ![s].booking_confirmed = TRUE]
                         /\ objContext' = [objContext EXCEPT ![gstate[s].context] =
                                             CtxSet(@, "booking_details", booking_response)]
                    ELSE /\ Say(s, "sorry, unable to create the event")
                         /\ UNCHANGED <<objContext, gstate>>
    /\ Step(s, "confirm_booking", "END")
    /\ UNCHANGED <<sessions, objExtracted, input, result>>

SearchWindowAlwaysAround(target_dt) ==
    <<target_dt - SearchWindowHours * 60, target_dt + SearchWindowHours * 60>>

\* the time window of _find_event_for_action (lines 332-340): the whole
\* day, up to the last instant before the next midnight, for a time of
\* 00:00, else two hours either side
SearchWindow(target_dt) ==
    IF HourOf(target_dt) = 0 /\ MinuteOf(target_dt) = 0
    THEN <<target_dt, target_dt + MinutesPerDay - 1>>
    ELSE <<target_dt - SearchWindowHours * 60, target_dt + SearchWindowHours * 60>>

\* _find_event_for_action, then _route_after_event_search, which appends
\* the "couldn't find" message itself when it returns not_found for an
\* empty candidate list.
find_event_for_action(s) ==
    /\ pc[s] = "find_event_for_action"
    /\ LET extracted == ExtractDatetime(Msgs(s), Ext(s))
           intent == gstate[s].intent
           target_dt == ParseIso(extracted.parsed_datetime)
           start_time == SearchWindow(target_dt)[1]
           end_time == SearchWindow(target_dt)[2]
           Routed(said, candidates) ==
               LET key == RouteAfterEventSearchKey(intent, Len(candidates))
                   msgs == IF key = "not_found" /\ Len(candidates) = 0 /\ intent # "find_event"
                           THEN said \o <<AIMessage("couldn't find a matching event")>>
                           ELSE said
               IN /\ objMessages' = [objMessages EXCEPT ![gstate[s].messages] = @ \o msgs]
                  /\ gstate' = [gstate EXCEPT ![s].cancellation_candidates = candidates]
                  /\ Step(s, "find_event_for_action", EventSearchEdge(key))
       IN /\ objExtracted' = [objExtracted EXCEPT ![gstate[s].extracted_info] = extracted]
          /\ IF "parsed_datetime" \notin extracted.keys
             THEN /\ Routed(<<AIMessage("which day")>>, <<>>)
                  /\ Made(s, <<>>)
             ELSE \E events_response \in Within(SearchOutcomes, 0) :
                    /\ Made(s, <<Call("search_events", IsoFormat(start_time), IsoFormat(end_time), "", events_response)>>)
                    /\ IF events_response.raised
                       THEN /\ Step(s, "find_event_for_action", "RAISED")
                            /\ UNCHANGED <<objMessages, gstate>>
                       ELSE IF "error" \in events_response.keys
                       THEN Routed(<<AIMessage("trouble searching your calendar")>>, <<>>)
                       ELSE Routed(<<>>, events_response.items)
    /\ UNCHANGED <<sessions, objContext, input, result>>

\* _list_found_events: parser.parse(None) raises for an event without
\* start.dateTime
list_found_events(s) ==
    /\ pc[s] = "list_found_events"
    /\ LET events == gstate[s].cancellation_candidates
       IN IF events = <<>>
          THEN /\ Say(s, "no scheduled events that day")
               /\ Step(s, "list_found_events", "END")
          ELSE IF \E i \in 1..Len(events) : ~events[i].hasDateTime
          THEN /\ Step(s, "list_found_events", "RAISED")
               /\ UNCHANGED objMessages
          ELSE /\ Say(s, "found the following events")
               /\ Step(s, "list_found_events", "END")
    /\ UNCHANGED <<sessions, objContext, objExtracted, gstate, input, calls, result, faults>>

\* the options of _clarify_cancellation: one entry per candidate, in order
RECURSIVE Options(_)
Options(candidates) ==
    IF candidates = <<>> THEN ""
    ELSE " - " \o Head(candidates).id \o Options(Tail(candidates))

\* _clarify_cancellation
clarify_cancellation(s) ==
    /\ pc[s] = "clarify_cancellation"
    /\ LET candidates == gstate[s].cancellation_candidates
       IN IF \E i \in 1..Len(candidates) : ~candidates[i].hasDateTime
          THEN /\ Step(s, "clarify_cancellation", "RAISED")
               /\ UNCHANGED objMessages
          ELSE /\ Say(s, "which one did you mean" \o Options(candidates))
               /\ Step(s, "clarify_cancellation", "END")
    /\ UNCHANGED <<sessions, objContext, objExtracted, gstate, input, calls, result, faults>>

\* _handle_cancellation
handle_cancellation(s) ==
    /\ pc[s] = "handle_cancellation"
    /\ IF gstate[s].cancellation_candidates = <<>>
       THEN /\ Step(s, "handle_cancellation", "RAISED")
            /\ Made(s, <<>>)
            /\ UNCHANGED objMessages
       ELSE LET event_id == gstate[s].cancellation_candidates[1].id
            IN \E result_ \in Within(DeleteOutcomes(event_id), 0) :
                 /\ Made(s, <<Call("delete_event", <<>>, <<>>, event_id, result_)>>)
                 /\ IF result_.raised
                    THEN /\ Step(s, "handle_cancellation", "RAISED")
                         /\ UNCHANGED objMessages
                    ELSE /\ Say(s, IF "error" \in result_.keys THEN "sorry, failed to cancel"
                                   ELSE "successfully cancelled")
                         /\ Step(s, "handle_cancellation", "END")
    /\ UNCHANGED <<sessions, objContext, objExtracted, gstate, input, result>>

handle_reschedule_request_forgets_event(s) ==
    /\ pc[s] = "handle_reschedule_request"
    /\ IF gstate[s].cancellation_candidates = <<>>
       THEN /\ Step(s, "handle_reschedule_request", "RAISED")
            /\ UNCHANGED <<objMessages, gstate>>
       ELSE /\ UNCHANGED gstate
            /\ Say(s, "when to reschedule")
            /\ Step(s, "handle_reschedule_request", "END")
    /\ UNCHANGED <<sessions, objContext, objExtracted, input, calls, result, faults>>

\* _handle_reschedule_request
handle_reschedule_request(s) ==
    /\ pc[s] = "handle_reschedule_request"
    /\ IF gstate[s].cancellation_candidates = <<>>
       THEN /\ Step(s, "handle_reschedule_request", "RAISED")
            /\ UNCHANGED <<objMessages, gstate>>
       ELSE /\ gstate' = [gstate EXCEPT ![s].event_to_reschedule = <<gstate[s].cancellation_candidates[1]>>]
            /\ Say(s, "when to reschedule")
            /\ Step(s, "handle_reschedule_request", "END")
    /\ UNCHANGED <<sessions, objContext, objExtracted, input, calls, result, faults>>

EventDurationAlwaysDefault(original_event) == SlotMinutes

\* lines 178-183: the original event's length, 30 minutes when its start
\* or end has no dateTime
EventDuration(original_event) ==
    IF original_event.hasDateTime
    THEN ParseIso(original_event.end) - ParseIso(original_event.start)
    ELSE SlotMinutes

complete_reschedule_drops_pending(s) ==
    /\ pc[s] = "complete_reschedule"
    /\ LET original_event == gstate[s].event_to_reschedule[1]
           extracted == ExtractDatetime(Msgs(s), Ext(s))
           new_start_time == ParseIso(extracted.parsed_datetime)
           duration == EventDuration(original_event)
           new_end_time == new_start_time + duration
           event_id == original_event.id
           avail(r) == Call("get_availability", IsoFormat(new_start_time), IsoFormat(new_end_time), "", r)
           update(r) == Call("update_event", IsoFormat(new_start_time), IsoFormat(new_end_time), event_id, r)
       IN /\ objExtracted' = [objExtracted EXCEPT ![gstate[s].extracted_info] = extracted]
          /\ IF "parsed_datetime" \notin extracted.keys
             THEN /\ Say(s, "didn't understand that time")
                  /\ Step(s, "complete_reschedule", "END")
                  /\ Made(s, <<>>)
                  /\ gstate' = [gstate EXCEPT ![s].event_to_reschedule = <<>>]
             ELSE \E availability_response \in Within(FreeBusyOutcomes(new_start_time, new_end_time), 0) :
                    IF availability_response.raised
                    THEN /\ Made(s, <<avail(availability_response)>>)
                         /\ Step(s, "complete_reschedule", "RAISED")
                         /\ UNCHANGED <<objMessages, gstate>>
                    ELSE IF availability_response.busy # <<>>
                    THEN /\ Made(s, <<avail(availability_response)>>)
                         /\ Say(s, "that time is booked, suggest another")
                         /\ Step(s, "complete_reschedule", "END")
                         /\ gstate' = [gstate EXCEPT ![s].event_to_reschedule = <<>>]
                    ELSE \E update_response \in Within(UpdateOutcomes(event_id),
                                                        IF Faulty(availability_response) THEN 1 ELSE 0) :
                           /\ Made(s, <<avail(availability_response), update(update_response)>>)
                           /\ IF update_response.raised
                              THEN /\ Step(s, "complete_reschedule", "RAISED")
                                   /\ UNCHANGED <<objMessages, gstate>>
                              ELSE IF "error" \in update_response.keys
                              THEN /\ Say(s, "sorry, error updating the event")
                                   /\ Step(s, "complete_reschedule", "END")
                                   /\ UNCHANGED gstate
                              ELSE /\ Say(s, "successfully rescheduled")
                                   /\ Step(s, "complete_reschedule", "END")
                                   /\ gstate' = [gstate EXCEPT ![s].event_to_reschedule = <<>>,
                                                               ![s].cancellation_candidates = <<>>]
    /\ UNCHANGED <<sessions, objContext, input, result>>

\* _complete_reschedule
complete_reschedule(s) ==
    /\ pc[s] = "complete_reschedule"
    /\ LET original_event == gstate[s].event_to_reschedule[1]
           extracted == ExtractDatetime(Msgs(s), Ext(s))
           new_start_time == ParseIso(extracted.parsed_datetime)
           duration == EventDuration(original_event)
           new_end_time == new_start_time + duration
           event_id == original_event.id
           avail(r) == Call("get_availability", IsoFormat(new_start_time), IsoFormat(new_end_time), "", r)
           update(r) == Call("update_event", IsoFormat(new_start_time), IsoFormat(new_end_time), event_id, r)
       IN /\ objExtracted' = [objExtracted EXCEPT ![gstate[s].extracted_info] = extracted]
          /\ IF "parsed_datetime" \notin extracted.keys
             THEN /\ Say(s, "didn't understand that time")
                  /\ Step(s, "complete_reschedule", "END")
                  /\ Made(s, <<>>)
                  /\ UNCHANGED gstate
             ELSE \E availability_response \in Within(FreeBusyOutcomes(new_start_time, new_end_time), 0) :
                    IF availability_response.raised
                    THEN /\ Made(s, <<avail(availability_response)>>)
                         /\ Step(s, "complete_reschedule", "RAISED")
                         /\ UNCHANGED <<objMessages, gstate>>
                    ELSE IF availability_response.busy # <<>>
                    THEN /\ Made(s, <<avail(availability_response)>>)
                         /\ Say(s, "that time is booked, suggest another")
                         /\ Step(s, "complete_reschedule", "END")
                         /\ UNCHANGED gstate
                    ELSE \E update_response \in Within(UpdateOutcomes(event_id),
                                                        IF Faulty(availability_response) THEN 1 ELSE 0) :
                           /\ Made(s, <<avail(availability_response), update(update_response)>>)
                           /\ IF update_response.raised
                              THEN /\ Step(s, "complete_reschedule", "RAISED")
                                   /\ UNCHANGED <<objMessages, gstate>>
                              ELSE IF "error" \in update_response.keys
                              THEN /\ Say(s, "sorry, error updating the event")
                                   /\ Step(s, "complete_reschedule", "END")
                                   /\ UNCHANGED gstate
                              ELSE /\ Say(s, "successfully rescheduled")
                                   /\ Step(s, "complete_reschedule", "END")
                                   /\ gstate' = [gstate EXCEPT ![s].event_to_reschedule = <<>>,
                                                               ![s].cancellation_candidates = <<>>]
    /\ UNCHANGED <<sessions, objContext, input, result>>

\* ------------------------------------------------------------------- Next
Next ==
    \/ \E s \in Sessions, m \in Utterances, c \in CallerContexts : BeginTurn(s, m, c)
    \/ \E s \in Sessions : initial_router(s)
    \/ \E s \in Sessions : understand_intent(s)
    \/ \E s \in Sessions : extract_datetime(s)
    \/ \E s \in Sessions : check_specific_slot(s)
    \/ \E s \in Sessions : check_availability(s)
    \/ \E s \in Sessions : suggest_times(s)
    \/ \E s \in Sessions : confirm_booking(s)
    \/ \E s \in Sessions : clarify_details(s)
    \/ \E s \in Sessions : find_event_for_action(s)
    \/ \E s \in Sessions : list_found_events(s)
    \/ \E s \in Sessions : clarify_cancellation(s)
    \/ \E s \in Sessions : handle_cancellation(s)
    \/ \E s \in Sessions : handle_reschedule_request(s)
    \/ \E s \in Sessions : complete_reschedule(s)
    \/ \E s \in Sessions : handle_general_inquiry(s)
    \/ \E s \in Sessions : Return(s)
    \/ \E s \in Sessions : Propagate(s)

Spec == Init /\ [][Next]_vars

\* --------------------------------------------- turns of several sessions
\* The chat endpoint (main.py:152-180) awaits process_message on the one
\* agent object, so turns of different sessions run as coroutines of one
\* event loop: a turn runs until it awaits a port call, and the others run
\* only while it waits. A node's step here is taken when it issues its
\* call, the response included; the turn then counts as waiting for it.
PortOps(node) ==
    CASE node = "understand_intent" -> {"llm"}
      [] node = "check_specific_slot" -> {"get_availability"}
      [] node = "check_availability" -> {"get_availability"}
      [] node = "confirm_booking" -> {"create_event"}
      [] node = "find_event_for_action" -> {"search_events"}
      [] node = "handle_cancellation" -> {"delete_event"}
      [] node = "complete_reschedule" -> {"get_availability", "update_event"}
      [] OTHER -> {}

\* the last node the turn ran made a port call
Awaiting(t) ==
    /\ path[t] # <<>>
    /\ calls[t] # <<>>
    /\ calls[t][Len(calls[t])].op \in PortOps(path[t][Len(path[t])])

\* no other turn is in the middle of running
Runnable(s) == \A t \in Sessions \ {s} : pc[t] = "idle" \/ Awaiting(t)

\* process_message called while another session's turn waits for a port
BeginOverlappingTurn(s, message, context) ==
    /\ Runnable(s)
    /\ \E t \in Sessions \ {s} : pc[t] # "idle"
    /\ \A r \in DOMAIN objMessages : Len(objMessages[r]) < MaxOverlapHistory
    /\ StartTurn(s, message, context)

ConcNext ==
    \/ \E s \in Sessions, m \in Utterances, c \in CallerContexts : BeginTurn(s, m, c)
    \/ \E s \in Sessions, m \in Utterances, c \in CallerContexts : BeginOverlappingTurn(s, m, c)
    \/ \E s \in Sessions : Runnable(s) /\ initial_router(s)
    \/ \E s \in Sessions : Runnable(s) /\ understand_intent(s)
    \/ \E s \in Sessions : Runnable(s) /\ extract_datetime(s)
    \/ \E s \in Sessions : Runnable(s) /\ check_specific_slot(s)
    \/ \E s \in Sessions : Runnable(s) /\ check_availability(s)
    \/ \E s \in Sessions : Runnable(s) /\ suggest_times(s)
    \/ \E s \in Sessions : Runnable(s) /\ confirm_booking(s)
    \/ \E s \in Sessions : Runnable(s) /\ clarify_details(s)
    \/ \E s \in Sessions : Runnable(s) /\ find_event_for_action(s)
    \/ \E s \in Sessions : Runnable(s) /\ list_found_events(s)
    \/ \E s \in Sessions : Runnable(s) /\ clarify_cancellation(s)
    \/ \E s \in Sessions : Runnable(s) /\ handle_cancellation(s)
    \/ \E s \in Sessions : Runnable(s) /\ handle_reschedule_request(s)
    \/ \E s \in Sessions : Runnable(s) /\ complete_reschedule(s)
    \/ \E s \in Sessions : Runnable(s) /\ handle_general_inquiry(s)
    \/ \E s \in Sessions : Runnable(s) /\ Return(s)
    \/ \E s \in Sessions : Runnable(s) /\ Propagate(s)

ConcSpec == Init /\ [][ConcNext]_vars

\* ------------------------------------------------- the slot computation
\* _suggest_times run on the busy list a day-level free/busy query has
\* just returned: the state in which _check_availability (lines 510-539)
\* leaves a check_availability turn, for every busy list whose interval
\* ends are among these times of the requested day (minutes after
\* midnight; the business window is 540..1020).
BusyBoundaries == {480, 540, 555, 570, 600, 960, 1005, 1020, 1080, 1110}

DayOf(t) == (t \div MinutesPerDay) * MinutesPerDay

BusyIntervals(day) ==
    { Interval(day + a, day + b) : <<a, b>> \in { p \in BusyBoundaries \X BusyBoundaries : p[1] < p[2] } }

BusyLists(day) == UNION { [1..n -> BusyIntervals(day)] : n \in 0..MaxBusy }

DatedUtterances == { u \in Utterances : FuzzyParse(u) # NoTime }

SlotInit ==
    \E u \in DatedUtterances :
      \E busy \in BusyLists(DayOf(FuzzyParse(u))) :
        LET s == FirstSession
            target_date == FuzzyParse(u)
            state == [initial_state EXCEPT !.session_id = s, !.intent = "check_availability",
                                           !.availability_checked = TRUE]
            classified == [NoResponse EXCEPT !.keys = {"content"}, !.content = "{intent:check_availability}"]
            response == [NoResponse EXCEPT !.keys = {"calendars"}, !.busy = busy]
        IN /\ sessions = [x \in {s} |-> [ShallowCopy(initial_state) EXCEPT !.session_id = s]]
           /\ objMessages = [r \in {InitialRef} |-> <<HumanMessage(u)>>]
           /\ objContext = [r \in {InitialRef} |-> CtxSet(EmptyContext, "availability", busy)]
           /\ objExtracted = [r \in {InitialRef} |->
                                [keys |-> {"parsed_datetime"}, parsed_datetime |-> IsoFormat(target_date)]]
           /\ pc = [x \in Sessions |-> IF x = s THEN "suggest_times" ELSE "idle"]
           /\ gstate = [x \in Sessions |-> IF x = s THEN state ELSE initial_state]
           /\ input = [x \in Sessions |-> IF x = s
                                           THEN [message |-> u, context |-> EmptyContext, first |-> TRUE, seen |-> 0]
                                           ELSE NoInput]
           /\ path = [x \in Sessions |-> IF x = s
                                          THEN <<"initial_router", "understand_intent", "extract_datetime",
                                                 "check_availability">>
                                          ELSE <<>>]
           /\ calls = [x \in Sessions |-> IF x = s
                                           THEN <<Call("llm", u, <<>>, "", classified),
                                                  Call("get_availability",
                                                       IsoFormat(ReplaceHour(target_date, DayStartHour)),
                                                       IsoFormat(ReplaceHour(target_date, DayEndHour)),
                                                       "", response)>>
                                           ELSE <<>>]
           /\ result = [x \in Sessions |-> NoResult]
           /\ faults = 0

SlotNext ==
    \/ \E s \in Sessions : suggest_times(s)
    \/ \E s \in Sessions : Return(s)

SlotSpec == SlotInit /\ [][SlotNext]_vars

\* ===================================================================
\* Properties
\* ===================================================================
InPath(s, node) == \E i \in 1..Len(path[s]) : path[s][i] = node
LastNode(s) == path[s][Len(path[s])]
LastMsg(s) == Msgs(s)[Len(Msgs(s))]
CallsOf(s, op) == SelectSeq(calls[s], LAMBDA c : c.op = op)
Succeeded(r) == ~r.raised /\ "error" \notin r.keys
TurnOver(s) == pc[s] \in {"END", "RAISED"}

\* what the session store holds for a session, objects dereferenced
StoredView(s) ==
    IF s \in DOMAIN sessions
    THEN [exists |-> TRUE, state |-> sessions[s],
          message_history |-> objMessages[sessions[s].messages],
          context |-> objContext[sessions[s].context],
          extracted_info |-> objExtracted[sessions[s].extracted_info]]
    ELSE [exists |-> FALSE, state |-> initial_state, message_history |-> <<>>,
          context |-> EmptyContext, extracted_info |-> EmptyExtracted]

\* C1: when the graph starts for the first message of a new session, the
\* state is fresh: the history is exactly that user message, the context
\* holds only keys the caller supplied in this call, extracted_info and
\* cancellation_candidates are empty, the flags are false, the intent is
\* empty and event_to_reschedule is null.
C1_FreshStateForNewSession ==
    \A s \in Sessions :
        (pc[s] = "initial_router" /\ input[s].first) =>
            /\ Msgs(s) = <<HumanMessage(input[s].message)>>
            /\ Ctx(s).keys \subseteq input[s].context.keys
            /\ Ext(s).keys = {}
            /\ gstate[s].cancellation_candidates = <<>>
            /\ ~gstate[s].availability_checked
            /\ ~gstate[s].booking_confirmed
            /\ gstate[s].intent = ""
            /\ gstate[s].event_to_reschedule = <<>>

\* C2: a step of a turn of session a leaves the stored state of every other
\* session b as it was (history, context, extracted_info, candidates,
\* event_to_reschedule, intent, flags).
C2_OtherSessionsUnchanged ==
    [][\A a, b \in Sessions :
          (a # b /\ (pc[a] # "idle" \/ pc'[a] # "idle")) => StoredView(b)' = StoredView(b)]_vars

\* C3: when the entry node is about to run, context.availability and
\* context.availability_error are absent (cleared at the start of the turn).
C3_AvailabilityClearedAtTurnStart ==
    \A s \in Sessions :
        pc[s] = "initial_router" =>
            Ctx(s).keys \cap {"availability", "availability_error"} \subseteq input[s].context.keys

PendingAtStart(s) == sessions[s].event_to_reschedule # <<>>

\* C4: a turn that starts with event_to_reschedule set runs initial_router,
\* then complete_reschedule and nothing else, without calling the classifier,
\* searchEvents, createEvent or deleteEvent; a turn that starts with it null
\* goes from initial_router to understand_intent.
C4_PendingRescheduleBypassesClassifier ==
    \A s \in Sessions :
        (pc[s] # "idle" /\ path[s] # <<>>) =>
            IF PendingAtStart(s)
            THEN /\ path[s] \in { <<"initial_router">>, <<"initial_router", "complete_reschedule">> }
                 /\ Len(path[s]) = 1 => pc[s] = "complete_reschedule"
                 /\ Len(path[s]) = 2 => TurnOver(s)
                 /\ \A i \in 1..Len(calls[s]) :
                        calls[s][i].op \notin {"llm", "search_events", "create_event", "delete_event"}
            ELSE /\ path[s][1] = "initial_router"
                 /\ Len(path[s]) = 1 => pc[s] = "understand_intent"
                 /\ Len(path[s]) > 1 => path[s][2] = "understand_intent"

C4_Witness ==
    \E s \in Sessions :
        /\ pc[s] = "END"
        /\ PendingAtStart(s)
        /\ path[s] = <<"initial_router", "complete_reschedule">>
        /\ CallsOf(s, "update_event") # <<>>

\* C5: process_message never raises to its caller because a port call raised.
C5_PortExceptionsAreCaught ==
    \A s \in Sessions :
        pc[s] = "RAISED" => \A i \in 1..Len(calls[s]) : ~calls[s][i].res.raised

\* C6: classifier content that is not a JSON object with an intent field
\* gives intent general_inquiry, the turn goes on to handle_general_inquiry,
\* and nothing is raised.
C6_MalformedClassifierOutputDefaults ==
    \A s \in Sessions :
        \A i \in 1..Len(calls[s]) :
            LET c == calls[s][i]
                decoded == JsonLoads(c.res.content)
            IN (c.op = "llm" /\ ~c.res.raised /\ ~(decoded.ok /\ decoded.isObject /\ decoded.hasIntent)) =>
                   /\ pc[s] # "RAISED"
                   /\ gstate[s].intent = "general_inquiry"
                   /\ pc[s] = "handle_general_inquiry" \/ InPath(s, "handle_general_inquiry")

SlotQuery(s) == calls[s][2]
BookingApologies == {"unexpected error while booking", "sorry, unable to create the event"}

\* C7: in a booking turn whose exact-window query found the slot free the
\* next node is confirm_booking; when createEvent returns a response with
\* an id, booking_confirmed is true, booking_details carry that id and the
\* answer is the success message; when it returns an error, no id, or
\* raises, the turn leaves booking_confirmed as it was and answers with an
\* apology.
C7_BookingOutcome ==
    \A s \in Sessions :
        /\ (InPath(s, "check_specific_slot") /\ Succeeded(SlotQuery(s).res) /\ SlotQuery(s).res.busy = <<>>) =>
               /\ gstate[s].intent = "book_appointment"
               /\ pc[s] = "confirm_booking" \/ InPath(s, "confirm_booking")
        /\ InPath(s, "confirm_booking") =>
               LET created == CallsOf(s, "create_event")
               IN /\ pc[s] = "END"
                  /\ Len(created) = 1
                  /\ IF ~created[1].res.raised /\ "id" \in created[1].res.keys
                     THEN /\ gstate[s].booking_confirmed
                          /\ "booking_details" \in Ctx(s).keys
                          /\ Ctx(s).booking_details.id = created[1].res.id
                          /\ LastMsg(s) = AIMessage("successfully booked")
                     ELSE /\ gstate[s].booking_confirmed = sessions[s].booking_confirmed
                          /\ LastMsg(s).role = "agent"
                          /\ LastMsg(s).text \in BookingApologies

C7_Witness ==
    \E s \in Sessions :
        /\ pc[s] = "END"
        /\ InPath(s, "confirm_booking")
        /\ gstate[s].booking_confirmed
        /\ Ctx(s).booking_details.id = "new1"

\* the exact-window query of this turn's check_specific_slot reported a busy interval
SlotReportedBusy(s) ==
    /\ InPath(s, "check_specific_slot")
    /\ Succeeded(SlotQuery(s).res)
    /\ SlotQuery(s).res.busy # <<>>

BusyTurnPath ==
    <<"initial_router", "understand_intent", "extract_datetime",
      "check_specific_slot", "check_availability", "suggest_times">>

IsPrefix(p, q) == Len(p) <= Len(q) /\ \A i \in 1..Len(p) : p[i] = q[i]

\* every slot lies in the business hours of the day of the requested time
SlotsOfRequestedDay(s) ==
    LET t == ParseIso(Ext(s).parsed_datetime)
        slots == Ctx(s).availability
    IN \A i \in 1..Len(slots) :
           /\ ParseIso(slots[i].start) >= ReplaceHour(t, DayStartHour)
           /\ ParseIso(slots[i].end) <= ReplaceHour(t, DayEndHour)
           /\ ParseIso(slots[i].end) = ParseIso(slots[i].start) + SlotMinutes

BusyTurnRouting(s) ==
    /\ CtxTruthy(Ctx(s), "user_informed_slot_is_busy")
    /\ IsPrefix(path[s], BusyTurnPath)
    /\ pc[s] # "RAISED"
    /\ pc[s] = "END" => path[s] = BusyTurnPath
    /\ CallsOf(s, "create_event") = <<>>

\* C8: in a booking turn whose exact-window query reports a busy interval,
\* user_informed_slot_is_busy is set, the turn runs check_specific_slot,
\* check_availability, suggest_times and createEvent is not invoked; the
\* answer offers alternative slots, all of them 30-minute slots within the
\* business hours of the requested day (read in the claim's favour: a day
\* without a free slot may answer that no other slot is available).
C8_BusySlotOffersSameDayAlternatives ==
    \A s \in Sessions :
        SlotReportedBusy(s) =>
            /\ BusyTurnRouting(s)
            /\ pc[s] = "END" =>
                   /\ "availability" \in Ctx(s).keys
                   /\ SlotsOfRequestedDay(s)
                   /\ LastMsg(s) = IF Ctx(s).availability # <<>>
                                   THEN AIMessage("that time is booked, other slots")
                                   ELSE AIMessage("no other available slots")

SearchReturnedOne(s) ==
    \E i \in 1..Len(calls[s]) :
        /\ calls[s][i].op = "search_events"
        /\ Succeeded(calls[s][i].res)
        /\ Len(calls[s][i].res.items) = 1

\* C9: at the end of a turn, deleteEvent has been invoked exactly when the
\* intent is cancel_appointment and this turn's searchEvents returned
\* exactly one event; it is invoked once, with that event's id, and when it
\* succeeds the answer confirms the cancellation.
C9_DeleteOnlyTheSingleMatch ==
    \A s \in Sessions :
        TurnOver(s) =>
            LET deleted == CallsOf(s, "delete_event")
                searched == CallsOf(s, "search_events")
            IN /\ (deleted # <<>>) <=> (gstate[s].intent = "cancel_appointment" /\ SearchReturnedOne(s))
               /\ deleted # <<>> =>
                      /\ Len(deleted) = 1
                      /\ Len(searched) = 1
                      /\ deleted[1].id = searched[1].res.items[1].id
                      /\ Succeeded(deleted[1].res) =>
                             /\ pc[s] = "END"
                             /\ LastMsg(s) = AIMessage("successfully cancelled")

C9_Witness ==
    \E s \in Sessions :
        /\ pc[s] = "END"
        /\ CallsOf(s, "delete_event") # <<>>
        /\ Succeeded(CallsOf(s, "delete_event")[1].res)
        /\ CallsOf(s, "delete_event")[1].id = "e1"

NodeAfter(s, node) ==
    LET i == CHOOSE j \in 1..Len(path[s]) : path[s][j] = node
    IN IF i < Len(path[s]) THEN path[s][i + 1] ELSE pc[s]

\* C10: the node after find_event_for_action: list_found_events for intent
\* find_event whatever the count; otherwise list_found_events for zero
\* candidates, answering that none were found; handle_cancellation or
\* handle_reschedule_request for exactly one candidate, by intent;
\* clarify_cancellation for more than one.
C10_RouteAfterEventSearch ==
    \A s \in Sessions :
        (InPath(s, "find_event_for_action") /\ NodeAfter(s, "find_event_for_action") # "RAISED") =>
            LET next == NodeAfter(s, "find_event_for_action")
                intent == gstate[s].intent
                count == Len(gstate[s].cancellation_candidates)
            IN /\ intent = "find_event" => next = "list_found_events"
               /\ (intent # "find_event" /\ count = 0) =>
                      /\ next = "list_found_events"
                      /\ pc[s] = "END" => LastMsg(s) = AIMessage("no scheduled events that day")
               /\ (intent = "cancel_appointment" /\ count = 1) => next = "handle_cancellation"
               /\ (intent = "reschedule_appointment" /\ count = 1) => next = "handle_reschedule_request"
               /\ (intent # "find_event" /\ count > 1) => next = "clarify_cancellation"

C10_Witness ==
    \E s \in Sessions :
        /\ pc[s] = "END"
        /\ path[s] = <<"initial_router", "understand_intent", "find_event_for_action", "list_found_events">>
        /\ gstate[s].intent = "cancel_appointment"
        /\ LastMsg(s) = AIMessage("no scheduled events that day")

CalendarOps == {"get_availability", "create_event", "search_events", "delete_event", "update_event"}

\* C11: the node after understand_intent is fixed by the classified intent:
\* find_event, cancel_appointment, reschedule_appointment go to
\* find_event_for_action; book_appointment, check_availability go to
\* extract_datetime; general_inquiry goes to handle_general_inquiry; any
\* other value goes to clarify_details.
C11_RouteAfterUnderstandIntent ==
    \A s \in Sessions :
        (InPath(s, "understand_intent") /\ NodeAfter(s, "understand_intent") # "RAISED") =>
            LET next == NodeAfter(s, "understand_intent")
                intent == gstate[s].intent
            IN /\ intent \in {"find_event", "cancel_appointment", "reschedule_appointment"}
                      => next = "find_event_for_action"
               /\ intent \in {"book_appointment", "check_availability"} => next = "extract_datetime"
               /\ intent = "general_inquiry" => next = "handle_general_inquiry"
               /\ intent \notin Intents => next = "clarify_details"

C11_Witness ==
    \E s \in Sessions :
        /\ pc[s] = "END"
        /\ gstate[s].intent = "smalltalk"
        /\ path[s] = <<"initial_router", "understand_intent", "clarify_details">>

\* C12: after extract_datetime, a turn without a parsed_datetime goes to
\* clarify_details and makes no Calendar Port call; with one, intent
\* book_appointment goes to check_specific_slot, check_availability to
\* check_availability, and any other intent to clarify_details.
C12_RouteAfterExtractDatetime ==
    \A s \in Sessions :
        InPath(s, "extract_datetime") =>
            LET next == NodeAfter(s, "extract_datetime")
                intent == gstate[s].intent
            IN IF "parsed_datetime" \notin Ext(s).keys
               THEN /\ next = "clarify_details"
                    /\ \A i \in 1..Len(calls[s]) : calls[s][i].op \notin CalendarOps
               ELSE /\ intent = "book_appointment" => next = "check_specific_slot"
                    /\ intent = "check_availability" => next = "check_availability"
                    /\ intent \notin {"book_appointment", "check_availability"} => next = "clarify_details"

C12_Witness ==
    \E s \in Sessions :
        /\ pc[s] = "END"
        /\ gstate[s].intent = "book_appointment"
        /\ "parsed_datetime" \notin Ext(s).keys
        /\ path[s] = <<"initial_router", "understand_intent", "extract_datetime", "clarify_details">>

\* ---- the slot computation, seen from a finished suggest_times
\* the day-level free/busy call whose busy list suggest_times has sliced
DayQuery(s) == CallsOf(s, "get_availability")[Len(CallsOf(s, "get_availability"))]
WindowStart(s) == ParseIso(DayQuery(s).a1)
WindowEnd(s) == ParseIso(DayQuery(s).a2)
BusyGiven(s) == DayQuery(s).res.busy
SlotsReturned(s) == Ctx(s).availability
Sliced(s) == pc[s] = "END" /\ LastNode(s) = "suggest_times"

BusyNonOverlappingInWindow(s) ==
    LET busy == BusyGiven(s)
    IN /\ \A i \in 1..Len(busy) :
              /\ WindowStart(s) <= ParseIso(busy[i].start)
              /\ ParseIso(busy[i].start) < ParseIso(busy[i].end)
              /\ ParseIso(busy[i].end) <= WindowEnd(s)
       /\ \A i, j \in 1..Len(busy) :
              i # j => \/ ParseIso(busy[i].end) <= ParseIso(busy[j].start)
                       \/ ParseIso(busy[j].end) <= ParseIso(busy[i].start)

\* [g1, g2) is a free gap: a maximal stretch of the window no busy interval meets
IsFreeGap(s, g1, g2) ==
    LET busy == BusyGiven(s)
    IN /\ g1 < g2
       /\ g1 = WindowStart(s) \/ \E i \in 1..Len(busy) : ParseIso(busy[i].end) = g1
       /\ g2 = WindowEnd(s) \/ \E i \in 1..Len(busy) : ParseIso(busy[i].start) = g2
       /\ \A i \in 1..Len(busy) : ParseIso(busy[i].end) <= g1 \/ g2 <= ParseIso(busy[i].start)

GapEnds(s) ==
    {WindowStart(s), WindowEnd(s)}
      \cup { ParseIso(BusyGiven(s)[i].start) : i \in 1..Len(BusyGiven(s)) }
      \cup { ParseIso(BusyGiven(s)[i].end) : i \in 1..Len(BusyGiven(s)) }

\* C13: for non-overlapping busy intervals inside the window the slots are
\* 30 minutes each, ascending and non-overlapping, meet no busy interval,
\* and are maximal: in every free gap they run consecutively from the
\* gap's start and leave less than 30 minutes of it uncovered.
C13_SlotsSliceTheFreeGaps ==
    \A s \in Sessions :
        (Sliced(s) /\ BusyNonOverlappingInWindow(s)) =>
            LET slots == SlotsReturned(s)
                busy == BusyGiven(s)
                starts == { ParseIso(slots[i].start) : i \in 1..Len(slots) }
            IN /\ \A i \in 1..Len(slots) :
                      /\ ParseIso(slots[i].end) = ParseIso(slots[i].start) + SlotMinutes
                      /\ WindowStart(s) <= ParseIso(slots[i].start)
                      /\ ParseIso(slots[i].end) <= WindowEnd(s)
                      /\ \A j \in 1..Len(busy) :
                             \/ ParseIso(slots[i].end) <= ParseIso(busy[j].start)
                             \/ ParseIso(busy[j].end) <= ParseIso(slots[i].start)
               /\ \A i \in 1..(Len(slots) - 1) : ParseIso(slots[i].end) <= ParseIso(slots[i + 1].start)
               /\ \A g1, g2 \in GapEnds(s) :
                      IsFreeGap(s, g1, g2) =>
                          { x \in starts : g1 <= x /\ x < g2 }
                              = { g1 + SlotMinutes * k : k \in 0..(((g2 - g1) \div SlotMinutes) - 1) }

C13_Witness ==
    \E s \in Sessions :
        /\ Sliced(s)
        /\ BusyNonOverlappingInWindow(s)
        /\ Len(BusyGiven(s)) = 2
        /\ Len(SlotsReturned(s)) > 2
        /\ \E g1, g2 \in GapEnds(s) :
               IsFreeGap(s, g1, g2) /\ g2 - g1 > SlotMinutes /\ (g2 - g1) % SlotMinutes # 0

\* C14: with an empty busy list over the 09:00-17:00 window the computation
\* returns exactly 16 slots, the first starting at the window's start and
\* the last ending at its end.
C14_EmptyDayGivesSixteenSlots ==
    \A s \in Sessions :
        (Sliced(s) /\ BusyGiven(s) = <<>>) =>
            LET slots == SlotsReturned(s)
            IN /\ WindowEnd(s) - WindowStart(s) = 8 * 60
               /\ Len(slots) = 16
               /\ ParseIso(slots[1].start) = WindowStart(s)
               /\ ParseIso(slots[16].end) = WindowEnd(s)

C14_Witness ==
    \E s \in Sessions :
        /\ Sliced(s)
        /\ BusyGiven(s) = <<>>
        /\ Len(SlotsReturned(s)) = 16

\* every minute of the window lies in a busy interval
BusyCoversWindow(s) ==
    LET busy == BusyGiven(s)
    IN \A t \in WindowStart(s)..(WindowEnd(s) - 1) :
           \E i \in 1..Len(busy) : ParseIso(busy[i].start) <= t /\ t < ParseIso(busy[i].end)

BusyInWindow(s) ==
    \A i \in 1..Len(BusyGiven(s)) :
        /\ WindowStart(s) <= ParseIso(BusyGiven(s)[i].start)
        /\ ParseIso(BusyGiven(s)[i].end) <= WindowEnd(s)

C16_ReturnsThisTurnsReply ==
    [][\A s \in Sessions :
          (pc[s] = "END" /\ pc'[s] = "idle") =>
              LET history == Msgs(s)
                  last == history[Len(history)]
              IN /\ result'[s].status = "ok"
                 /\ result'[s].message = last.text
                 /\ last.role = "agent"
                 /\ history[input[s].seen + 1] = HumanMessage(input[s].message)
                 /\ Len(history) > input[s].seen + 1
                 /\ objMessages'[sessions'[s].messages] = history
                 /\ result'[s].context = Ctx(s)
                 /\ result'[s].intent = gstate[s].intent]_vars

C16_Witness ==
    \E s \in Sessions :
        /\ pc[s] = "idle"
        /\ result[s].status = "ok"
        /\ result[s].message = "successfully booked"
        /\ result[s].intent = "book_appointment"
        /\ "booking_details" \in result[s].context.keys

StoredHistory(s) == objMessages[sessions[s].messages]

\* C17: a session's message history only grows at its end: each step
\* leaves the stored history of every session a prefix of what it becomes,
\* the start of a turn appends that turn's user message, and the rest of
\* the turn appends agent messages only, so user messages stay in the
\* order the turns were submitted.
C17_HistoryIsAppendOnly ==
    [][/\ \A s \in DOMAIN sessions :
              /\ s \in DOMAIN sessions'
              /\ IsPrefix(StoredHistory(s), StoredHistory(s)')
       /\ \A s \in Sessions :
              /\ (pc[s] = "idle" /\ pc'[s] # "idle") =>
                     /\ Len(Msgs(s)') = input'[s].seen + 1
                     /\ Msgs(s)' = SubSeq(Msgs(s)', 1, input'[s].seen) \o <<HumanMessage(input'[s].message)>>
                     /\ SubSeq(Msgs(s)', 1, input'[s].seen) = objMessages[gstate'[s].messages]
              /\ (pc[s] # "idle" /\ pc'[s] # "idle") =>
                     /\ IsPrefix(Msgs(s), Msgs(s)')
                     /\ \A i \in (Len(Msgs(s)) + 1)..Len(Msgs(s)') : Msgs(s)'[i].role = "agent"]_vars

C17_Witness ==
    \E s \in Sessions :
        /\ pc[s] = "END"
        /\ ~input[s].first
        /\ input[s].seen >= 2
        /\ Msgs(s)[1].role = "user"
        /\ Msgs(s)[input[s].seen + 1] = HumanMessage(input[s].message)
        /\ Len(Msgs(s)) > input[s].seen + 1

\* the answers that report a failed Calendar Port call
FailureApologies ==
    {"unexpected error while booking", "sorry, unable to create the event",
     "trouble searching your calendar", "sorry, failed to cancel",
     "sorry, error updating the event"}

ReturnedError(c) == c.op \in CalendarOps /\ ~c.res.raised /\ "error" \in c.res.keys

\* C18: a turn in which a Calendar Port call returned an error result ends
\* with an apology that reports the failure.
C18_ErrorResultsAreReported ==
    \A s \in Sessions :
        (pc[s] = "END" /\ \E i \in 1..Len(calls[s]) : ReturnedError(calls[s][i])) =>
            /\ LastMsg(s).role = "agent"
            /\ LastMsg(s).text \in FailureApologies

\* C20: complete_reschedule calls updateEvent only after its free/busy query
\* for the new window succeeded and reported no busy interval.
C20_UpdateOnlyAfterFreeWindow ==
    \A s \in Sessions :
        \A i \in 1..Len(calls[s]) :
            calls[s][i].op = "update_event" =>
                /\ i > 1
                /\ calls[s][i - 1].op = "get_availability"
                /\ calls[s][i - 1].a1 = calls[s][i].a1
                /\ calls[s][i - 1].a2 = calls[s][i].a2
                /\ Succeeded(calls[s][i - 1].res)
                /\ calls[s][i - 1].res.busy = <<>>

OwnTime(s) == FuzzyParse(input[s].message)

AsksForTimeAgain == {"didn't understand that time", "that time is booked, suggest another"}

\* C21: after a complete_reschedule turn, event_to_reschedule is null and
\* cancellation_candidates is empty when updateEvent succeeded, and
\* event_to_reschedule is null after every such turn that ends without
\* asking the user again for a new time (updateEvent returned an error).
C21_RescheduleTargetCleared ==
    \A s \in Sessions :
        (pc[s] = "END" /\ LastNode(s) = "complete_reschedule") =>
            LET updated == CallsOf(s, "update_event")
            IN /\ (updated # <<>> /\ Succeeded(updated[1].res)) =>
                      /\ gstate[s].event_to_reschedule = <<>>
                      /\ gstate[s].cancellation_candidates = <<>>
               /\ LastMsg(s).text \notin AsksForTimeAgain => gstate[s].event_to_reschedule = <<>>

\* the nodes whose only edge leads to END
TerminalNodes == {"suggest_times", "confirm_booking", "clarify_details", "list_found_events",
                  "clarify_cancellation", "handle_cancellation", "handle_reschedule_request",
                  "complete_reschedule", "handle_general_inquiry"}

\* the turn has run no node twice, and nothing after a terminal node
VisitsEachNodeOnce(s) ==
    /\ \A i, j \in 1..Len(path[s]) : path[s][i] = path[s][j] => i = j
    /\ \A i \in 1..Len(path[s]) : path[s][i] \in TerminalNodes => (i = Len(path[s]) /\ TurnOver(s))
    /\ path[s] # <<>> => path[s][1] = "initial_router"

\* C22: a turn starts at the entry router, visits each node at most once,
\* and is over exactly when it has reached one terminal node, after which
\* no further node runs.
C22_EveryTurnEndsAtOneTerminalNode ==
    \A s \in Sessions :
        /\ VisitsEachNodeOnce(s)
        /\ TurnOver(s) => (path[s] # <<>> /\ LastNode(s) \in TerminalNodes)

\* this turn's searchEvents answered with a number of events other than one
SearchNotUnique(s) ==
    /\ gstate[s].intent \in {"cancel_appointment", "reschedule_appointment"}
    /\ CallsOf(s, "search_events") # <<>>
    /\ Succeeded(CallsOf(s, "search_events")[1].res)
    /\ Len(CallsOf(s, "search_events")[1].res.items) # 1

\* C23: when searchEvents returns zero or several events in a cancel or
\* reschedule turn, the turn calls neither deleteEvent nor updateEvent and
\* event_to_reschedule stays null; with several events the turn ends at
\* clarify_cancellation with an answer that lists every candidate.
C23_NoActionWithoutUniqueMatch ==
    \A s \in Sessions :
        SearchNotUnique(s) =>
            LET found == CallsOf(s, "search_events")[1].res.items
            IN /\ CallsOf(s, "delete_event") = <<>>
               /\ CallsOf(s, "update_event") = <<>>
               /\ gstate[s].event_to_reschedule = <<>>
               /\ Len(found) > 1 =>
                      \/ pc[s] = "clarify_cancellation"
                      \/ /\ pc[s] = "END"
                         /\ LastNode(s) = "clarify_cancellation"
                         /\ LastMsg(s) = AIMessage("which one did you mean" \o Options(found))

\* C24: at the end of a turn that went through the classifier and made no
\* event search (a booking, availability, general-inquiry or clarify
\* turn), cancellation_candidates is empty.
C24_CandidatesClearedBetweenTurns ==
    \A s \in Sessions :
        (pc[s] = "END" /\ InPath(s, "understand_intent") /\ ~InPath(s, "find_event_for_action")) =>
            gstate[s].cancellation_candidates = <<>>

\* the turn has run _extract_datetime (as a node, or called from
\* find_event_for_action or complete_reschedule)
ExtractionRan(s) ==
    InPath(s, "extract_datetime") \/ InPath(s, "find_event_for_action") \/ InPath(s, "complete_reschedule")

\* the start times a Calendar Port call of a turn may carry for time t
TimesDerivedFrom(t) ==
    { IsoFormat(t), IsoFormat(ReplaceHour(t, DayStartHour)), IsoFormat(t - SearchWindowHours * 60) }

\* C25: once a turn has run the extraction, parsed_datetime is present
\* exactly when the session's latest user message holds a parseable time
\* and is then the parse of that message; a value left by an earlier turn
\* is gone when the parse fails, and every Calendar Port call the turn makes
\* is for a time derived from that message.
C25_ExtractionReadsLatestUserMessage ==
    \A s \in Sessions :
        ExtractionRan(s) =>
            LET human == SelectSeq(Msgs(s), LAMBDA m : m.role = "user")
                latest == human[Len(human)].text
            IN /\ latest = input[s].message
               /\ ("parsed_datetime" \in Ext(s).keys) <=> (FuzzyParse(latest) # NoTime)
               /\ "parsed_datetime" \in Ext(s).keys => Ext(s).parsed_datetime = IsoFormat(FuzzyParse(latest))
               /\ \A i \in 1..Len(calls[s]) :
                      calls[s][i].op \in CalendarOps \ {"delete_event"} =>
                          /\ FuzzyParse(latest) # NoTime
                          /\ calls[s][i].a1 \in TimesDerivedFrom(FuzzyParse(latest))

C25_Witness ==
    \E s \in Sessions :
        /\ pc[s] = "END"
        /\ path[s] = <<"initial_router", "understand_intent", "extract_datetime", "clarify_details">>
        /\ gstate[s].intent = "book_appointment"
        /\ FuzzyParse(input[s].message) = NoTime
        /\ "parsed_datetime" \notin Ext(s).keys
        /\ \E i \in 1..input[s].seen : Msgs(s)[i] = AIMessage("successfully booked")

C27_CreateOnlyAfterFreeSlotCheck ==
    \A s \in Sessions :
        /\ \A i \in 1..Len(calls[s]) :
               calls[s][i].op = "create_event" =>
                   /\ gstate[s].intent = "book_appointment"
                   /\ InPath(s, "check_specific_slot")
                   /\ i > 1
                   /\ calls[s][i - 1].op = "get_availability"
                   /\ calls[s][i - 1].a1 = calls[s][i].a1
                   /\ calls[s][i - 1].a2 = calls[s][i].a2
                   /\ ParseIso(calls[s][i].a2) = ParseIso(calls[s][i].a1) + SlotMinutes
                   /\ Succeeded(calls[s][i - 1].res)
                   /\ calls[s][i - 1].res.busy = <<>>
        /\ (InPath(s, "check_specific_slot") /\ ~Succeeded(SlotQuery(s).res)) =>
               /\ "is_slot_available" \in Ctx(s).keys
               /\ ~Ctx(s).is_slot_available
               /\ pc[s] # "confirm_booking"
               /\ ~InPath(s, "confirm_booking")
               /\ CallsOf(s, "create_event") = <<>>

C27_Witness ==
    \E s \in Sessions :
        /\ pc[s] = "END"
        /\ path[s] = BusyTurnPath
        /\ CtxTruthy(input[s].context, "is_slot_available")
        /\ "error" \in SlotQuery(s).res.keys
        /\ ~Ctx(s).is_slot_available
        /\ CallsOf(s, "create_event") = <<>>

\* the free gaps the scan of _suggest_times emits for the busy list it was given
GapsEmitted(s) ==
    LET busy == BusyGiven(s)
    IN FreeGaps(WindowStart(s),
                Sorted([i \in 1..Len(busy) |-> <<ParseIso(busy[i].start), ParseIso(busy[i].end)>>]),
                WindowEnd(s))

\* C28: for any busy list, overlapping, nested or unsorted, every free gap
\* the cursor scan emits has start < end, the slots are the slices of those
\* gaps, and no emitted slot intersects a busy interval.
C28_OverlappingBusyIsTolerated ==
    \A s \in Sessions :
        Sliced(s) =>
            LET slots == SlotsReturned(s)
                busy == BusyGiven(s)
                gaps == GapsEmitted(s)
            IN /\ \A g \in 1..Len(gaps) : gaps[g][1] < gaps[g][2]
               /\ slots = SliceAll(gaps)
               /\ \A i \in 1..Len(slots) :
                      /\ ParseIso(slots[i].start) < ParseIso(slots[i].end)
                      /\ \A j \in 1..Len(busy) :
                             \/ ParseIso(slots[i].end) <= ParseIso(busy[j].start)
                             \/ ParseIso(busy[j].end) <= ParseIso(slots[i].start)

C28_Witness ==
    \E s \in Sessions :
        /\ Sliced(s)
        /\ Len(BusyGiven(s)) = 2
        /\ ParseIso(BusyGiven(s)[2].start) < ParseIso(BusyGiven(s)[1].start)
        /\ ParseIso(BusyGiven(s)[1].end) < ParseIso(BusyGiven(s)[2].end)
        /\ WindowStart(s) < ParseIso(BusyGiven(s)[2].start)
        /\ SlotsReturned(s) # <<>>

\* C29: every slot suggest_times emits lies inside the business hours of
\* the requested day (not before 09:00, not after 17:00 of that day),
\* whatever busy list context.availability held when it ran.
C29_SlotsWithinBusinessHours ==
    \A s \in Sessions :
        Sliced(s) => SlotsOfRequestedDay(s)

\* C30: find_event_for_action calls searchEvents exactly once when a time t
\* was extracted: for t at 00:00 over the whole calendar day, from t up to
\* (not including) t + 1 day; otherwise from t - 2h to t + 2h.
C30_SearchWindowPolicy ==
    \A s \in Sessions :
        (InPath(s, "find_event_for_action") /\ OwnTime(s) # NoTime) =>
            LET searched == CallsOf(s, "search_events")
                t == OwnTime(s)
                from == ParseIso(searched[1].a1)
                to == ParseIso(searched[1].a2)
            IN /\ Len(searched) = 1
               /\ IF HourOf(t) = 0 /\ MinuteOf(t) = 0
                  THEN /\ from = t
                       /\ to < t + MinutesPerDay
                       /\ to + 1 >= t + MinutesPerDay
                  ELSE /\ from = t - SearchWindowHours * 60
                       /\ to = t + SearchWindowHours * 60

C30_Witness ==
    \E s \in Sessions :
        /\ pc[s] = "END"
        /\ InPath(s, "find_event_for_action")
        /\ HourOf(OwnTime(s)) = 0
        /\ MinuteOf(OwnTime(s)) = 0
        /\ OwnTime(s) # NoTime
        /\ CallsOf(s, "search_events")[1].a1 = IsoFormat(OwnTime(s))
        /\ Succeeded(CallsOf(s, "search_events")[1].res)

MutatingOps == {"create_event", "update_event", "delete_event"}

\* C31: no port operation is retried within a turn: the classifier,
\* searchEvents, createEvent, updateEvent and deleteEvent are each called at
\* most once, getFreeBusy at most twice (the exact 30-minute window, then
\* the day window), and at most one mutating Calendar Port call is made,
\* also when a call fails.
C31_NoRetryWithinTurn ==
    \A s \in Sessions :
        LET queries == CallsOf(s, "get_availability")
        IN /\ \A op \in {"llm", "search_events"} \cup MutatingOps : Len(CallsOf(s, op)) <= 1
           /\ Len(queries) <= 2
           /\ Len(queries) = 2 =>
                  /\ ParseIso(queries[1].a2) = ParseIso(queries[1].a1) + SlotMinutes
                  /\ queries[2].a1 = IsoFormat(ReplaceHour(ParseIso(queries[1].a1), DayStartHour))
                  /\ queries[2].a2 = IsoFormat(ReplaceHour(ParseIso(queries[1].a1), DayEndHour))
           /\ Cardinality({ i \in 1..Len(calls[s]) : calls[s][i].op \in MutatingOps }) <= 1

C31_Witness ==
    \E s \in Sessions :
        /\ TurnOver(s)
        /\ Len(CallsOf(s, "get_availability")) = 2
        /\ ~Succeeded(CallsOf(s, "get_availability")[1].res)
        /\ Len(CallsOf(s, "llm")) = 1

\* C32: handle_reschedule_request runs only with exactly one candidate and
\* intent reschedule_appointment; it sets event_to_reschedule to that
\* candidate, asks for the new time and calls no port; no other node of a
\* turn sets event_to_reschedule.
C32_OnlyRescheduleRequestRecordsEvent ==
    [][\A s \in Sessions :
          /\ pc[s] = "handle_reschedule_request" =>
                 /\ Len(gstate[s].cancellation_candidates) = 1
                 /\ gstate[s].intent = "reschedule_appointment"
          /\ (pc[s] = "handle_reschedule_request" /\ pc'[s] # pc[s]) =>
                 /\ pc'[s] = "END"
                 /\ gstate'[s].event_to_reschedule = <<gstate[s].cancellation_candidates[1]>>
                 /\ Msgs(s)' = Append(Msgs(s), AIMessage("when to reschedule"))
                 /\ calls'[s] = calls[s]
          /\ (pc[s] \notin {"idle", "END", "RAISED", "handle_reschedule_request"}
                /\ gstate'[s].event_to_reschedule # gstate[s].event_to_reschedule) =>
                 gstate'[s].event_to_reschedule = <<>>]_vars

C32_Witness ==
    \E s \in Sessions :
        /\ pc[s] = "END"
        /\ LastNode(s) = "handle_reschedule_request"
        /\ gstate[s].intent = "reschedule_appointment"
        /\ gstate[s].event_to_reschedule = <<E1>>
        /\ CallsOf(s, "search_events")[1].res.items = <<E1>>
        /\ LastMsg(s) = AIMessage("when to reschedule")

\* the event a complete_reschedule turn found pending when it started
PendingEvent(s) == sessions[s].event_to_reschedule[1]

\* C33: the updateEvent call of complete_reschedule carries the id of the
\* event recorded in event_to_reschedule, starts at the time extracted from
\* the turn's message, and ends that start plus the original event's
\* duration, or plus 30 minutes when the original has no start/end time.
C33_UpdateCarriesPendingEvent ==
    \A s \in Sessions :
        \A i \in 1..Len(calls[s]) :
            calls[s][i].op = "update_event" =>
                LET original == PendingEvent(s)
                    length == IF original.hasDateTime
                              THEN ParseIso(original.end) - ParseIso(original.start)
                              ELSE SlotMinutes
                IN /\ PendingAtStart(s)
                   /\ calls[s][i].id = original.id
                   /\ OwnTime(s) # NoTime
                   /\ calls[s][i].a1 = IsoFormat(OwnTime(s))
                   /\ calls[s][i].a2 = IsoFormat(OwnTime(s) + length)

C33_Witness ==
    \E s \in Sessions :
        /\ pc[s] = "END"
        /\ PendingAtStart(s)
        /\ PendingEvent(s).hasDateTime
        /\ CallsOf(s, "update_event") # <<>>
        /\ Succeeded(CallsOf(s, "update_event")[1].res)
        /\ ParseIso(CallsOf(s, "update_event")[1].a2) - ParseIso(CallsOf(s, "update_event")[1].a1) # SlotMinutes

\* the turn's free/busy query for the new window reported a busy interval
NewWindowBusy(s) ==
    /\ CallsOf(s, "get_availability") # <<>>
    /\ Succeeded(CallsOf(s, "get_availability")[1].res)
    /\ CallsOf(s, "get_availability")[1].res.busy # <<>>

\* C34: a complete_reschedule turn whose message holds no time, or whose
\* new window is reported busy, keeps the same pending event in
\* event_to_reschedule, calls no updateEvent and asks for another time, so
\* the state it stores routes the next turn to complete_reschedule again.
C34_FailedRescheduleKeepsPending ==
    \A s \in Sessions :
        (pc[s] = "END" /\ LastNode(s) = "complete_reschedule" /\ (OwnTime(s) = NoTime \/ NewWindowBusy(s))) =>
            /\ gstate[s].event_to_reschedule = sessions[s].event_to_reschedule
            /\ gstate[s].event_to_reschedule # <<>>
            /\ CallsOf(s, "update_event") = <<>>
            /\ LastMsg(s).role = "agent"
            /\ LastMsg(s).text = IF OwnTime(s) = NoTime
                                 THEN "didn't understand that time"
                                 ELSE "that time is booked, suggest another"
            /\ EntryRoute(gstate[s]) = "complete_reschedule"

C34_Witness ==
    \E s \in Sessions :
        /\ pc[s] = "END"
        /\ LastNode(s) = "complete_reschedule"
        /\ NewWindowBusy(s)
        /\ gstate[s].event_to_reschedule = <<E1>>
        /\ LastMsg(s) = AIMessage("that time is booked, suggest another")

\* C35: when the day-level free/busy query of check_availability returns
\* an error result or raises, the node does not raise: it records the
\* failure under context.availability_error, leaves context.availability
\* and availability_checked as they were, and the turn goes on to
\* suggest_times.
C35_DayQueryFailureIsRecorded ==
    [][\A s \in Sessions :
          (pc[s] = "check_availability" /\ pc'[s] # pc[s]
             /\ ~Succeeded(calls'[s][Len(calls'[s])].res)) =>
              /\ pc'[s] = "suggest_times"
              /\ "availability_error" \in Ctx(s)'.keys
              /\ ("availability" \in Ctx(s)'.keys) <=> ("availability" \in Ctx(s).keys)
              /\ Ctx(s)'.availability = Ctx(s).availability
              /\ gstate'[s].availability_checked = gstate[s].availability_checked]_vars

C35_Witness ==
    \E s \in Sessions :
        /\ pc[s] = "suggest_times"
        /\ LastNode(s) = "check_availability"
        /\ DayQuery(s).res.raised
        /\ "availability_error" \in Ctx(s).keys
        /\ "availability" \notin Ctx(s).keys
        /\ ~gstate[s].availability_checked

\* the day-level query of this turn's check_availability succeeded
DayQuerySucceeded(s) ==
    /\ InPath(s, "check_availability")
    /\ Succeeded(DayQuery(s).res)

\* C36: at the end of a turn availability_checked is true only if the
\* day-level free/busy query of check_availability succeeded in that same
\* turn.
C36_AvailabilityCheckedIsPerTurn ==
    \A s \in Sessions :
        (pc[s] = "END" /\ gstate[s].availability_checked) => DayQuerySucceeded(s)

\* C37: suggest_times uses the "that time is already booked" wording only
\* in a turn whose own check_specific_slot found the requested slot not
\* available; the flag of an earlier busy-slot turn does not carry over to
\* a later check_availability turn of the session.
C37_BusyWordingIsPerTurn ==
    \A s \in Sessions :
        (pc[s] = "END" /\ LastNode(s) = "suggest_times"
           /\ LastMsg(s) = AIMessage("that time is booked, other slots")) =>
            /\ InPath(s, "check_specific_slot")
            /\ ~Ctx(s).is_slot_available

====
